---- MODULE Spec2Model ----
(***************************************************************************)
(* The chunked upload component (src/unnamed/part_005, <script setup>):    *)
(* the file queue, the per-file upload attempts (one uploadChunks          *)
(* coroutine per uploadFile call), the chunk transfers (XMLHttpRequest)    *)
(* and the registry of active requests.  One action is one turn of the     *)
(* browser event loop: a user gesture, a network response, or a timer      *)
(* callback together with the promise continuations it triggers.           *)
(***************************************************************************)
EXTENDS Integers, Sequences, FiniteSets, TLC

\* ---------------------------------------------------------------- bounds
\* files ever admitted to the queue, in the two-file queue model
MaxFiles == 2
\* files ever admitted to the queue, in the one-session model
SessionFiles == 1
\* uploadFile calls (attempts) over the whole run
MaxAttempts == 2
\* largest file size offered, in bytes
MaxFileSize == 3
\* distinct file names offered
MaxNames == 1
\* largest value of the simultaneousUploads prop
MaxConcurrent == 2
\* inputs of the chunk planner checked on its own
PlanMaxSize == 12
PlanMaxChunkSize == 5

\* ----------------------------------------------------- program constants
\* bytes per configured megabyte (1024 * 1024 in the source, scaled down)
MB == 1
\* props.chunkSize, in MB
ChunkSizeMB == 1
\* props.maxSize, in MB, in the one-session model
MaxSizeMB == 2
\* props.maxSize, in MB, in the two-file queue model
QueueMaxSizeMB == 1
\* props.chunkSize and props.maxSize, in MB, in the model of a session whose
\* chunks differ in length
UnevenChunkSizeMB == 2
UnevenMaxSizeMB == 3
\* the value an upload progress event reports between 0 and 100
\* (Math.round(e.loaded / e.total * 100) for a transfer a quarter done)
TickPercent == 25

VARIABLES
    props,           \* [simultaneousUploads, autoUpload, chunkSize, maxSize]
    fileList,        \* fileList.value: the queue, a sequence of file objects (ids)
    files,           \* the file entries ever created, by id
    arrays,          \* the chunk arrays ever built by uploadFile, by attempt id
    attempts,        \* the uploadChunks coroutines ever started, by attempt id
    activeRequests,  \* activeRequests.value: identifier -> sequence of handles
    emitted,         \* the events emitted by the last turn, in order
    plan             \* the chunk planner taken alone: inputs and result

vars == <<props, fileList, files, arrays, attempts, activeRequests, emitted, plan>>

\* ---------------------------------------------------------------- helpers
Min(a, b) == IF a < b THEN a ELSE b

\* Math.ceil(a / b) for a >= 0, b > 0
Ceil(a, b) == IF a % b = 0 THEN a \div b ELSE (a \div b) + 1

\* Math.round(a / b) for a >= 0, b > 0: halves round up
Round(a, b) == (2 * a + b) \div (2 * b)

RECURSIVE SumProgress(_, _)
SumProgress(chunks, k) ==
    IF k = 0 THEN 0 ELSE chunks[k].progress + SumProgress(chunks, k - 1)

\* the state of the component as one record, so that a handler and the
\* functions it calls compose
St ==
    [fl |-> fileList, files |-> files, arrays |-> arrays, att |-> attempts,
     reg |-> activeRequests, ev |-> <<>>]

Becomes(s) ==
    /\ fileList' = s.fl
    /\ files' = s.files
    /\ arrays' = s.arrays
    /\ attempts' = s.att
    /\ activeRequests' = s.reg
    /\ emitted' = s.ev
    /\ UNCHANGED <<props, plan>>

\* emit(type, file, ...)
Emit(s, type, f) ==
    [s EXCEPT !.ev = Append(@, [type |-> type, file |-> f,
                                progress |-> IF f = 0 THEN 0 ELSE s.files[f].progress])]

\* the chunk array a file's chunks field refers to (0: the initial [])
ChunksOf(s, f) == IF s.files[f].chunks = 0 THEN <<>> ELSE s.arrays[s.files[f].chunks]

\* ---------------------------------------------------------- chunk planner
\* (variant: the end of a chunk is not clamped to the file size)
PlanChunks_NoClamp(size, chunkSize) ==
    [k \in 1..Ceil(size, chunkSize) |->
        [index |-> k - 1,
         start |-> (k - 1) * chunkSize,
         end |-> k * chunkSize,
         progress |-> 0,
         status |-> "waiting"]]

\* uploadFile, lines 702-712
PlanChunks(size, chunkSize) ==
    [k \in 1..Ceil(size, chunkSize) |->
        [index |-> k - 1,
         start |-> (k - 1) * chunkSize,
         end |-> Min(k * chunkSize, size),
         progress |-> 0,
         status |-> "waiting"]]

CalculateFileIdentifier(raw) == <<raw.name, raw.size, raw.lastModified>>

\* ------------------------------------------------------------- uploadFile
\* a new uploadChunks coroutine, suspended in the create call it has issued
NewAttempt(f) ==
    [file |-> f,
     pc |-> "create",          \* create | slot | join | merge | done
     result |-> "running",     \* how the coroutine ended
     runningUploads |-> 0,
     maxConcurrent |-> 0,
     pos |-> 0,                \* the chunk the for-of loop is at (1-based)
     arr |-> 0,                \* the chunk array the for-of loop iterates
     xhr |-> <<>>,             \* per chunk of arr: none | sent | ok | fail | aborted
     xhrUid |-> <<>>,          \* per chunk of arr: the upload_id its request carries
     completeUid |-> 0,        \* the upload_id of the complete call (0: not issued)
     retried |-> FALSE,        \* started by retryUpload
     cancelled |-> FALSE,      \* cancelUpload was accepted while this was the file's latest attempt
     errors |-> 0]             \* upload-error events this coroutine has emitted

\* uploadFile(file) up to the first await of uploadChunks: the create call
\* is issued (createUploadTask, line 789) and the coroutine suspends
UploadFile(s, f) ==
    LET a == Len(s.att) + 1
        id == CalculateFileIdentifier(s.files[f].raw)
        chunks == PlanChunks(s.files[f].size, props.chunkSize * MB)
    IN  [s EXCEPT !.files[f].status = "uploading",
                  !.files[f].chunks = a,
                  !.files[f].identifier = id,
                  !.arrays = Append(@, chunks),
                  !.reg = [k \in (DOMAIN s.reg) \cup {id} |->
                              IF k = id THEN <<>> ELSE s.reg[k]],
                  !.att = Append(@, NewAttempt(f))]

\* startUpload: fileList.value.forEach(...)
RECURSIVE StartUploadFrom(_, _)
StartUploadFrom(s, k) ==
    IF k > Len(s.fl) THEN s
    ELSE LET f == s.fl[k]
         IN  StartUploadFrom(
                 IF s.files[f].status \in {"waiting", "error"}
                 THEN UploadFile(s, f) ELSE s,
                 k + 1)

StartUploadAll(s) == StartUploadFrom(s, 1)

\* -------------------------------------------------- validateAndAddFiles
NewFile(raw) ==
    [raw |-> raw, name |-> raw.name, size |-> raw.size,
     status |-> "waiting", progress |-> 0,
     chunks |-> 0,           \* 0: the initial [] ; otherwise a chunk array id
     identifier |-> <<>>,    \* undefined until uploadFile
     uploadId |-> 0,         \* undefined until a create call returns
     url |-> 0]              \* undefined until a complete call returns

RECURSIVE AddFilesFrom(_, _, _)
AddFilesFrom(s, batch, k) ==
    IF k > Len(batch) THEN s
    ELSE IF batch[k].size > props.maxSize * MB
         THEN AddFilesFrom(s, batch, k + 1)          \* ElMessage.error; continue
         ELSE AddFilesFrom(
                 [s EXCEPT !.files = Append(@, NewFile(batch[k])),
                           !.fl = Append(@, Len(s.files) + 1)],
                 batch, k + 1)

ValidateAndAddFilesOn(s, batch) ==
    LET s1 == AddFilesFrom(s, batch, 1)
        s2 == Emit(s1, "file-change", 0)
    IN  IF props.autoUpload /\ Len(s2.fl) > 0 THEN StartUploadAll(s2) ELSE s2

\* ------------------------------------------------------------ uploadChunk
RECURSIVE SumWeighted(_, _)
SumWeighted(chunks, k) ==
    IF k = 0 THEN 0
    ELSE chunks[k].progress * (chunks[k].end - chunks[k].start)
             + SumWeighted(chunks, k - 1)

\* (variant: the mean is weighted by the byte length of the chunks)
UpdateFileProgress_ByteWeighted(s, f) ==
    LET cs == ChunksOf(s, f)
        p == IF Len(cs) = 0 THEN s.files[f].progress
             ELSE Round(SumWeighted(cs, Len(cs)), s.files[f].size)
    IN  Emit([s EXCEPT !.files[f].progress = p], "upload-progress", f)

\* updateFileProgress(file)
UpdateFileProgress(s, f) ==
    LET cs == ChunksOf(s, f)
        p == IF Len(cs) = 0 THEN s.files[f].progress   \* not reachable: see uploadChunk
             ELSE Round(SumProgress(cs, Len(cs)), Len(cs))
    IN  Emit([s EXCEPT !.files[f].progress = p], "upload-progress", f)

\* (variant: the chunk list is walked from its end)
SendChunk_Mirrored(s, a, k) ==
    LET at == s.att[a]
        f == at.file
        id == s.files[f].identifier
        m == Len(s.arrays[at.arr]) + 1 - k
    IN  [s EXCEPT !.arrays[at.arr][m].status = "uploading",
                  !.reg[id] = Append(@, <<a, m>>),
                  !.att[a].xhr[m] = "sent",
                  !.att[a].xhrUid[m] = s.files[f].uploadId,
                  !.att[a].runningUploads = @ + 1]

\* uploadChunk(file, chunk) up to xhr.send: attempt a sends chunk k of the
\* array it iterates
SendChunk(s, a, k) ==
    LET at == s.att[a]
        f == at.file
        id == s.files[f].identifier
    IN  [s EXCEPT !.arrays[at.arr][k].status = "uploading",
                  !.reg[id] = Append(@, <<a, k>>),
                  !.att[a].xhr[k] = "sent",
                  !.att[a].xhrUid[k] = s.files[f].uploadId,
                  !.att[a].runningUploads = @ + 1]

\* (variant: the slot check lets one transfer too many through)
RECURSIVE DispatchLoop_OffByOne(_, _)
DispatchLoop_OffByOne(s, a) ==
    LET at == s.att[a]
        arr == s.arrays[at.arr]
    IN  IF at.pos > Len(arr)
        THEN [s EXCEPT !.att[a].pc = "join"]
        ELSE IF at.runningUploads > at.maxConcurrent
        THEN [s EXCEPT !.att[a].pc = "slot"]
        ELSE DispatchLoop_OffByOne(
                 [(IF arr[at.pos].status # "success" THEN SendChunk(s, a, at.pos) ELSE s)
                     EXCEPT !.att[a].pos = @ + 1],
                 a)

\* the for-of loop of uploadChunks from position pos on, up to its next
\* await: the slot wait (line 743) or checkAllChunksUploaded (line 762)
RECURSIVE DispatchLoop(_, _)
DispatchLoop(s, a) ==
    LET at == s.att[a]
        arr == s.arrays[at.arr]
    IN  IF at.pos > Len(arr)
        THEN [s EXCEPT !.att[a].pc = "join"]
        ELSE IF at.runningUploads >= at.maxConcurrent
        THEN [s EXCEPT !.att[a].pc = "slot"]
        ELSE DispatchLoop(
                 [(IF arr[at.pos].status # "success" THEN SendChunk(s, a, at.pos) ELSE s)
                     EXCEPT !.att[a].pos = @ + 1],
                 a)

\* (variant: after the slot wait the loop starts over at the first chunk)
ResumeLoop_StartsOver(s, a) ==
    DispatchLoop([s EXCEPT !.att[a].pos = 1], a)

\* the loop body after the slot wait resolved, then the rest of the loop
ResumeLoop(s, a) ==
    LET at == s.att[a]
        arr == s.arrays[at.arr]
    IN  DispatchLoop(
            [(IF arr[at.pos].status # "success" THEN SendChunk(s, a, at.pos) ELSE s)
                EXCEPT !.att[a].pos = @ + 1],
            a)

\* (variant: the catch block reports the error and leaves the status alone)
CatchUploadFailed_NoStatus(s, a) ==
    LET f == s.att[a].file
    IN  Emit([s EXCEPT !.att[a].pc = "done",
                       !.att[a].errors = @ + 1],
             "upload-error", f)

\* the catch block of uploadChunks, lines 764-768
CatchUploadFailed(s, a) ==
    LET f == s.att[a].file
    IN  Emit([s EXCEPT !.files[f].status = "error",
                       !.att[a].pc = "done",
                       !.att[a].errors = @ + 1],
             "upload-error", f)

\* the create call of attempt a returns
CreateReturned(s, a, ok) ==
    LET f == s.att[a].file
    IN  IF ~ok
        THEN CatchUploadFailed([s EXCEPT !.att[a].result = "create-failed"], a)
        ELSE LET n == Len(ChunksOf(s, f))
                 s1 == [s EXCEPT !.files[f].uploadId = a,
                                 !.att[a].maxConcurrent = props.simultaneousUploads,
                                 !.att[a].arr = s.files[f].chunks,
                                 !.att[a].pos = 1,
                                 !.att[a].xhr = [k \in 1..n |-> "none"],
                                 !.att[a].xhrUid = [k \in 1..n |-> 0]]
             IN  DispatchLoop(s1, a)

\* remove a handle from the registry entry of the file's identifier
\* (indexOf + splice, lines 843-846)
Deregister(s, f, h) ==
    LET id == s.files[f].identifier
        q == s.reg[id]
    IN  [s EXCEPT !.reg[id] = SelectSeq(q, LAMBDA x : x # h)]

\* xhr.upload.onprogress with lengthComputable
XhrProgressOn(s, a, k, p) ==
    LET at == s.att[a]
    IN  UpdateFileProgress([s EXCEPT !.arrays[at.arr][k].progress = p], at.file)

\* xhr.onload with a 2xx status, then the .finally of uploadChunks
XhrSucceeded(s, a, k) ==
    LET at == s.att[a]
        s1 == [s EXCEPT !.arrays[at.arr][k].status = "success",
                        !.arrays[at.arr][k].progress = 100]
        s2 == UpdateFileProgress(s1, at.file)
        s3 == Deregister(s2, at.file, <<a, k>>)
    IN  [s3 EXCEPT !.att[a].xhr[k] = "ok", !.att[a].runningUploads = @ - 1]

\* (variant: a failed transfer does not give its slot back)
XhrFailed_KeepsSlot(s, a, k) ==
    LET at == s.att[a]
        s1 == [s EXCEPT !.arrays[at.arr][k].status = "error"]
        s2 == UpdateFileProgress(s1, at.file)
        s3 == Deregister(s2, at.file, <<a, k>>)
    IN  [s3 EXCEPT !.att[a].xhr[k] = "fail"]

\* xhr.onload with another status, or xhr.onerror; then the .finally
XhrFailed(s, a, k) ==
    LET at == s.att[a]
        s1 == [s EXCEPT !.arrays[at.arr][k].status = "error"]
        s2 == UpdateFileProgress(s1, at.file)
        s3 == Deregister(s2, at.file, <<a, k>>)
    IN  [s3 EXCEPT !.att[a].xhr[k] = "fail", !.att[a].runningUploads = @ - 1]

\* ------------------------------------------- checkAllChunksUploaded, merge
AllUploaded(cs) == \A k \in 1..Len(cs) : cs[k].status = "success"

HasError(cs) == \E k \in 1..Len(cs) : cs[k].status = "error"

\* mergeChunks(file) up to its await: the complete call is issued
MergeStart(s, a) ==
    LET f == s.att[a].file
    IN  [s EXCEPT !.att[a].pc = "merge",
                  !.att[a].completeUid = s.files[f].uploadId]

\* one callback of the join interval of attempt a (lines 892-906)
JoinTicked(s, a) ==
    LET f == s.att[a].file
        cs == ChunksOf(s, f)
    IN  IF AllUploaded(cs)
        THEN MergeStart(s, a)
        ELSE IF HasError(cs)
        THEN LET s1 == Emit([s EXCEPT !.files[f].status = "error",
                                      !.att[a].result = "chunk-failed",
                                      !.att[a].errors = @ + 1],
                            "upload-error", f)
             IN  CatchUploadFailed(s1, a)      \* reject -> catch of uploadChunks
        ELSE s

\* (variant: one finished entry is enough)
AllComplete_SomeDone(s) ==
    \E k \in 1..Len(s.fl) : s.files[s.fl[k]].status \in {"success", "error"}

AllComplete(s) ==
    \A k \in 1..Len(s.fl) : s.files[s.fl[k]].status \in {"success", "error"}

\* (variant: the batch event is emitted before the file's success event)
MergeReturned_CompleteFirst(s, a, ok) ==
    LET f == s.att[a].file
    IN  IF ok
        THEN LET s1 == [s EXCEPT !.files[f].status = "success",
                                 !.files[f].url = a,
                                 !.files[f].progress = 100,
                                 !.att[a].pc = "done",
                                 !.att[a].result = "success"]
                 s2 == IF AllComplete(s1) THEN Emit(s1, "upload-complete", 0) ELSE s1
             IN  Emit(s2, "upload-success", f)
        ELSE LET s1 == Emit([s EXCEPT !.files[f].status = "error",
                                      !.att[a].result = "merge-failed",
                                      !.att[a].errors = @ + 1],
                            "upload-error", f)
             IN  CatchUploadFailed(s1, a)

\* (variant: a failed complete call is swallowed, the entry stays uploading)
MergeReturned_SwallowsFailure(s, a, ok) ==
    LET f == s.att[a].file
    IN  IF ok
        THEN LET s1 == [s EXCEPT !.files[f].status = "success",
                                 !.files[f].url = a,
                                 !.files[f].progress = 100,
                                 !.att[a].pc = "done",
                                 !.att[a].result = "success"]
                 s2 == Emit(s1, "upload-success", f)
             IN  IF AllComplete(s2) THEN Emit(s2, "upload-complete", 0) ELSE s2
        ELSE [s EXCEPT !.att[a].pc = "done",
                       !.att[a].result = "merge-failed"]

\* (variant: after a failed complete call the join check polls again)
MergeReturned_PollsAgain(s, a, ok) ==
    LET f == s.att[a].file
    IN  IF ok
        THEN LET s1 == [s EXCEPT !.files[f].status = "success",
                                 !.files[f].url = a,
                                 !.files[f].progress = 100,
                                 !.att[a].pc = "done",
                                 !.att[a].result = "success"]
                 s2 == Emit(s1, "upload-success", f)
             IN  IF AllComplete(s2) THEN Emit(s2, "upload-complete", 0) ELSE s2
        ELSE [s EXCEPT !.att[a].pc = "join"]

\* the complete call of attempt a returns (lines 933-963)
MergeReturned(s, a, ok) ==
    LET f == s.att[a].file
    IN  IF ok
        THEN LET s1 == [s EXCEPT !.files[f].status = "success",
                                 !.files[f].url = a,
                                 !.files[f].progress = 100,
                                 !.att[a].pc = "done",
                                 !.att[a].result = "success"]
                 s2 == Emit(s1, "upload-success", f)
             IN  IF AllComplete(s2) THEN Emit(s2, "upload-complete", 0) ELSE s2
        ELSE LET s1 == Emit([s EXCEPT !.files[f].status = "error",
                                      !.att[a].result = "merge-failed",
                                      !.att[a].errors = @ + 1],
                            "upload-error", f)
             IN  CatchUploadFailed(s1, a)      \* throw -> reject -> catch of uploadChunks

\* ------------------------------------------------- cancel, retry, remove
\* xhr.abort() on every handle of a registry entry: no load or error
\* handler runs for an aborted request
RECURSIVE AbortAll(_, _, _)
AbortAll(s, q, k) ==
    IF k > Len(q) THEN s
    ELSE AbortAll([s EXCEPT !.att[q[k][1]].xhr[q[k][2]] = "aborted"], q, k + 1)

\* (variant: the registry entry is emptied before its handles are aborted)
CancelUploadOn_ClearsFirst(s, f) ==
    IF s.files[f].status # "uploading" THEN s
    ELSE LET id == s.files[f].identifier
             s1 == IF id \in DOMAIN s.reg
                   THEN [AbortAll(s, <<>>, 1) EXCEPT !.reg[id] = <<>>]
                   ELSE s
         IN  [s1 EXCEPT !.files[f].status = "error",
                        !.files[f].progress = 0,
                        !.att[s.files[f].chunks].cancelled = TRUE]

CancelUploadOn(s, f) ==
    IF s.files[f].status # "uploading" THEN s
    ELSE LET id == s.files[f].identifier
             s1 == IF id \in DOMAIN s.reg
                   THEN [AbortAll(s, s.reg[id], 1) EXCEPT !.reg[id] = <<>>]
                   ELSE s
         IN  [s1 EXCEPT !.files[f].status = "error",
                        !.files[f].progress = 0,
                        !.att[s.files[f].chunks].cancelled = TRUE]

\* retryUpload: the mapped copy of the chunks is the array uploadFile
\* replaces at once; no coroutine or request ever holds it
RetryUploadOn(s, f) ==
    [UploadFile([s EXCEPT !.files[f].progress = 0], f)
        EXCEPT !.att[Len(s.att) + 1].retried = TRUE]

RemoveAt(q, i) == SubSeq(q, 1, i - 1) \o SubSeq(q, i + 1, Len(q))

RemoveFileOn(s, i) ==
    LET f == s.fl[i]
        s1 == IF s.files[f].status = "uploading" THEN CancelUploadOn(s, f) ELSE s
    IN  [s1 EXCEPT !.fl = RemoveAt(@, i)]

\* ================================================================ actions
Names == 1..MaxNames

RawFiles == [name : Names, size : 0..MaxFileSize, lastModified : {0}]

\* the file lists one selection or drop can carry
Batches(n) == UNION {[1..k -> RawFiles] : k \in 1..n}

Fits(s, maxFiles) == Len(s.files) <= maxFiles /\ Len(s.att) <= MaxAttempts

AttemptIds == DOMAIN attempts

\* handleFileChange / handleDrop
ValidateAndAddFiles(maxFiles) ==
    \E batch \in Batches(maxFiles) :
        LET s == ValidateAndAddFilesOn(St, batch)
        IN  Fits(s, maxFiles) /\ Becomes(s)

\* the exposed upload()
StartUpload ==
    LET s == StartUploadAll(St)
    IN  /\ Len(s.att) > Len(attempts)
        /\ Len(s.att) <= MaxAttempts
        /\ Becomes(s)

CreateReturn ==
    \E a \in AttemptIds, ok \in BOOLEAN :
        /\ attempts[a].pc = "create"
        /\ Becomes(CreateReturned(St, a, ok))

\* a callback of the slot-wait interval that finds a free slot
SlotTick ==
    \E a \in AttemptIds :
        /\ attempts[a].pc = "slot"
        /\ attempts[a].runningUploads < attempts[a].maxConcurrent
        /\ Becomes(ResumeLoop(St, a))

XhrProgress ==
    \E a \in AttemptIds :
        \E k \in DOMAIN attempts[a].xhr :
            /\ attempts[a].xhr[k] = "sent"
            /\ Becomes(XhrProgressOn(St, a, k, TickPercent))

XhrLoadOk ==
    \E a \in AttemptIds :
        \E k \in DOMAIN attempts[a].xhr :
            /\ attempts[a].xhr[k] = "sent"
            /\ Becomes(XhrSucceeded(St, a, k))

XhrLoadFail ==
    \E a \in AttemptIds :
        \E k \in DOMAIN attempts[a].xhr :
            /\ attempts[a].xhr[k] = "sent"
            /\ Becomes(XhrFailed(St, a, k))

\* a callback of the join interval that finds all chunks done or one failed
JoinTick ==
    \E a \in AttemptIds :
        /\ attempts[a].pc = "join"
        /\ LET cs == ChunksOf(St, attempts[a].file)
           IN  AllUploaded(cs) \/ HasError(cs)
        /\ Becomes(JoinTicked(St, a))

MergeReturn ==
    \E a \in AttemptIds, ok \in BOOLEAN :
        /\ attempts[a].pc = "merge"
        /\ Becomes(MergeReturned(St, a, ok))

\* the cancel button: rendered while the entry is uploading
CancelUpload ==
    \E i \in DOMAIN fileList :
        /\ files[fileList[i]].status = "uploading"
        /\ Becomes(CancelUploadOn(St, fileList[i]))

\* the retry button: rendered while the entry is in error
RetryUpload ==
    \E i \in DOMAIN fileList :
        /\ files[fileList[i]].status = "error"
        /\ Len(attempts) < MaxAttempts
        /\ Becomes(RetryUploadOn(St, fileList[i]))

\* the delete button: rendered while the entry is neither uploading nor in error
RemoveFile ==
    \E i \in DOMAIN fileList :
        /\ files[fileList[i]].status \notin {"uploading", "error"}
        /\ Becomes(RemoveFileOn(St, i))

\* the exposed clearFiles()
ClearFiles ==
    /\ fileList # <<>>
    /\ Becomes([St EXCEPT !.fl = <<>>])

\* the component after setup, nothing selected yet
Mounted ==
    /\ fileList = <<>>
    /\ files = <<>>
    /\ arrays = <<>>
    /\ attempts = <<>>
    /\ activeRequests = <<>>
    /\ emitted = <<>>

NoPlan == [size |-> 0, chunkSize |-> 1, chunks |-> <<>>, done |-> FALSE]

\* ---- one session: a single file of up to two chunks, its attempts, the
\* create / chunk / complete protocol, cancel and restart
Init ==
    /\ props \in [simultaneousUploads : 1..MaxConcurrent, autoUpload : BOOLEAN,
                  chunkSize : {ChunkSizeMB}, maxSize : {MaxSizeMB}]
    /\ Mounted
    /\ plan = NoPlan

Next ==
    \/ ValidateAndAddFiles(SessionFiles)
    \/ StartUpload
    \/ CreateReturn
    \/ SlotTick
    \/ XhrProgress
    \/ XhrLoadOk
    \/ XhrLoadFail
    \/ JoinTick
    \/ MergeReturn
    \/ CancelUpload
    \/ RetryUpload

Spec == Init /\ [][Next]_vars

\* ---- the queue: two files of at most one chunk each, with removal and
\* clearing of entries
QueueInit ==
    /\ props \in [simultaneousUploads : 1..MaxConcurrent, autoUpload : BOOLEAN,
                  chunkSize : {ChunkSizeMB}, maxSize : {QueueMaxSizeMB}]
    /\ Mounted
    /\ plan = NoPlan

QueueNext ==
    \/ ValidateAndAddFiles(MaxFiles)
    \/ StartUpload
    \/ CreateReturn
    \/ XhrProgress
    \/ XhrLoadOk
    \/ XhrLoadFail
    \/ JoinTick
    \/ MergeReturn
    \/ CancelUpload
    \/ RetryUpload
    \/ RemoveFile
    \/ ClearFiles

SpecQueue == QueueInit /\ [][QueueNext]_vars

\* ---- one session whose file is cut into chunks of different lengths
UnevenInit ==
    /\ props \in [simultaneousUploads : 1..MaxConcurrent, autoUpload : {TRUE},
                  chunkSize : {UnevenChunkSizeMB}, maxSize : {UnevenMaxSizeMB}]
    /\ Mounted
    /\ plan = NoPlan

SpecUneven == UnevenInit /\ [][Next]_vars

\* ---- one session that the user does not cancel, with the scheduling the
\* browser gives: every pending create, chunk and complete call settles and
\* every interval timer keeps firing
LiveNext ==
    \/ ValidateAndAddFiles(SessionFiles)
    \/ StartUpload
    \/ CreateReturn
    \/ SlotTick
    \/ XhrProgress
    \/ XhrLoadOk
    \/ XhrLoadFail
    \/ JoinTick
    \/ MergeReturn
    \/ RetryUpload

SpecLive ==
    /\ Init
    /\ [][LiveNext]_vars
    /\ WF_vars(CreateReturn)
    /\ WF_vars(SlotTick)
    /\ WF_vars(XhrLoadOk \/ XhrLoadFail)
    /\ WF_vars(JoinTick)
    /\ WF_vars(MergeReturn)

\* ------------------------------------------- the chunk planner on its own
PlanInit ==
    /\ props = [simultaneousUploads |-> 1, autoUpload |-> FALSE,
                chunkSize |-> ChunkSizeMB, maxSize |-> MaxSizeMB]
    /\ Mounted
    /\ plan \in [size : 0..PlanMaxSize, chunkSize : 1..PlanMaxChunkSize,
                 chunks : {<<>>}, done : {FALSE}]

\* uploadFile builds the chunk list of a file of plan.size bytes
PlanStep ==
    /\ ~plan.done
    /\ plan' = [plan EXCEPT !.chunks = PlanChunks(plan.size, plan.chunkSize),
                            !.done = TRUE]
    /\ UNCHANGED <<props, fileList, files, arrays, attempts, activeRequests, emitted>>

PlanNext == PlanStep

SpecPlan == PlanInit /\ [][PlanNext]_vars

\* ======================================================== claim vocabulary
EventTypes(ev) == [i \in 1..Len(ev) |-> ev[i].type]

Emits(ev, type, f) == \E i \in 1..Len(ev) : ev[i].type = type /\ ev[i].file = f

\* attempt a issues its complete call in this step
IssuesComplete(a) == attempts[a].pc # "merge" /\ attempts'[a].pc = "merge"

\* attempt a sends chunk k in this step
SendsChunk(a, k) ==
    /\ k \in DOMAIN attempts'[a].xhr
    /\ attempts'[a].xhr[k] = "sent"
    /\ (k \in DOMAIN attempts[a].xhr => attempts[a].xhr[k] = "none")

\* the transfers of attempt a that were dispatched and whose promise has not settled
Unsettled(a) == {k \in DOMAIN attempts[a].xhr : attempts[a].xhr[k] \in {"sent", "aborted"}}

\* the latest attempt of file f (the one whose chunk array file.chunks is)
Latest(f) == files[f].chunks

\* -------------------------------------------------------------------- C1
\* C1: for every size >= 0 and chunk size > 0 the chunk list built by
\* uploadFile has the least n with n * chunkSize >= size chunks, indexed
\* 0..n-1; chunk i is [i*chunkSize, min((i+1)*chunkSize, size)); the ranges
\* tile [0, size) without gap or overlap, their lengths sum to size, and
\* every chunk but the last is chunkSize long.
RECURSIVE SumLengths(_, _)
SumLengths(cs, k) ==
    IF k = 0 THEN 0 ELSE (cs[k].end - cs[k].start) + SumLengths(cs, k - 1)

Thm_C1_ChunkPlan ==
    plan.done =>
        LET cs == plan.chunks
            n == Len(cs)
            c == plan.chunkSize
        IN  /\ n * c >= plan.size
            /\ (n > 0 => (n - 1) * c < plan.size)
            /\ \A i \in 1..n :
                  /\ cs[i].index = i - 1
                  /\ cs[i].start = (i - 1) * c
                  /\ cs[i].end = Min(i * c, plan.size)
                  /\ cs[i].start < cs[i].end
                  /\ (i < n => cs[i].end - cs[i].start = c /\ cs[i].end = cs[i + 1].start)
            /\ (n > 0 => cs[1].start = 0 /\ cs[n].end = plan.size)
            /\ SumLengths(cs, n) = plan.size

Wit_C1_ShortLastChunk ==
    /\ plan.done
    /\ Len(plan.chunks) = 3
    /\ plan.chunks[3].end - plan.chunks[3].start < plan.chunkSize

\* -------------------------------------------------------------------- C2
\* C2: an attempt issues its complete call only when every chunk of the
\* file's chunk list has status success, and never while one of its own
\* chunk transfers is still outstanding.
CE_C2_CompleteAfterBarrier ==
    [][\A a \in DOMAIN attempts :
          IssuesComplete(a) =>
              /\ AllUploaded(ChunksOf(St, attempts[a].file))
              /\ \A k \in DOMAIN attempts[a].xhr : attempts[a].xhr[k] # "sent"]_vars

\* -------------------------------------------------------------------- C3
\* C3: with simultaneousUploads >= 1, in every reachable state an attempt
\* has at most simultaneousUploads transfers dispatched and not yet settled.
Thm_C3_BoundedInFlight ==
    \A a \in DOMAIN attempts :
        attempts[a].pc # "create" =>
            Cardinality(Unsettled(a)) <= props.simultaneousUploads

Wit_C3_SlotsFull ==
    \E a \in DOMAIN attempts :
        /\ attempts[a].pc = "slot"
        /\ Cardinality({k \in DOMAIN attempts[a].xhr : attempts[a].xhr[k] = "sent"})
               = props.simultaneousUploads
        /\ \E k \in DOMAIN attempts[a].xhr : attempts[a].xhr[k] = "none"

\* -------------------------------------------------------------------- C4
\* C4: an attempt one of whose chunk transfers failed never issues the
\* complete call, and once its dispatch loop and join are over it has ended
\* with the session in error and upload-error emitted.
CE_C4_ChunkFailureFailsAttempt ==
    \A a \in DOMAIN attempts :
        (\E k \in DOMAIN attempts[a].xhr : attempts[a].xhr[k] = "fail") =>
            /\ attempts[a].completeUid = 0
            /\ (attempts[a].pc = "done" =>
                   attempts[a].result = "chunk-failed" /\ attempts[a].errors >= 1)

\* -------------------------------------------------------------------- C5
\* C5: when the create call of an attempt fails, the file goes to status
\* error and upload-error is emitted in that turn, and the attempt never
\* issues a chunk call or a complete call.
Thm_C5_CreateFailure ==
    /\ [](\A a \in DOMAIN attempts :
            attempts[a].result = "create-failed" =>
                /\ attempts[a].pc = "done"
                /\ attempts[a].xhr = <<>>
                /\ attempts[a].completeUid = 0)
    /\ [][\A a \in DOMAIN attempts :
            (attempts[a].pc = "create" /\ attempts'[a].result = "create-failed") =>
                /\ files'[attempts[a].file].status = "error"
                /\ Emits(emitted', "upload-error", attempts[a].file)]_vars

Wit_C5_CreateFailed ==
    \E a \in DOMAIN attempts :
        /\ attempts[a].result = "create-failed"
        /\ files[attempts[a].file].size > 0
        /\ Emits(emitted, "upload-error", attempts[a].file)

\* -------------------------------------------------------------------- C6
\* C6: once cancelUpload has been accepted for an attempt, that attempt
\* never issues the complete call afterwards (and the cancel leaves the file
\* in status error with progress 0).
CE_C6_NoCompleteAfterCancel ==
    [][\A a \in DOMAIN attempts :
          /\ (attempts[a].cancelled => ~IssuesComplete(a))
          /\ (~attempts[a].cancelled /\ attempts'[a].cancelled =>
                 /\ files'[attempts[a].file].status = "error"
                 /\ files'[attempts[a].file].progress = 0)]_vars

\* -------------------------------------------------------------------- C7
\* C7: in the state right after cancelUpload on an uploading file, every
\* handle that was registered under the file's identifier is aborted and the
\* registry entry of that identifier is empty.
Thm_C7_CancelAbortsAll ==
    [][\A a \in DOMAIN attempts :
          (~attempts[a].cancelled /\ attempts'[a].cancelled) =>
              LET id == files[attempts[a].file].identifier
              IN  /\ activeRequests'[id] = <<>>
                  /\ \A i \in 1..Len(activeRequests[id]) :
                        LET h == activeRequests[id][i]
                        IN  attempts'[h[1]].xhr[h[2]] = "aborted"]_vars

Wit_C7_TwoAborted ==
    \E a \in DOMAIN attempts :
        /\ attempts[a].cancelled
        /\ Cardinality({k \in DOMAIN attempts[a].xhr : attempts[a].xhr[k] = "aborted"}) = 2
        /\ activeRequests[files[attempts[a].file].identifier] = <<>>
        /\ files[attempts[a].file].status = "error"

\* -------------------------------------------------------------------- C8
\* C8: a retry leaves the file with a fresh chunk list, every chunk waiting
\* at progress 0, and a new create call in flight; and after a retry no
\* chunk call of the file is sent while the create call of the retry has
\* not returned.
CE_C8_CreateBeforeChunks ==
    [][/\ \A b \in DOMAIN attempts' :
            (b \notin DOMAIN attempts /\ attempts'[b].retried) =>
                /\ attempts'[b].pc = "create"
                /\ files'[attempts'[b].file].chunks = b
                /\ \A k \in 1..Len(arrays'[b]) :
                      arrays'[b][k].status = "waiting" /\ arrays'[b][k].progress = 0
       /\ \A a \in DOMAIN attempts :
            (\E k \in DOMAIN attempts'[a].xhr : SendsChunk(a, k)) =>
                LET b == files'[attempts[a].file].chunks
                IN  ~(attempts'[b].retried /\ attempts'[b].pc = "create")]_vars

\* -------------------------------------------------------------------- C9
\* C9: whenever the entries of the queue come to be all terminal (success
\* or error), upload-complete is emitted in that turn, also when the last
\* entry to finish ends in error.
AllTerminal(fl, fs) ==
    \A i \in 1..Len(fl) : fs[fl[i]].status \in {"success", "error"}

CE_C9_CompleteWhenAllTerminal ==
    [][(/\ fileList' = fileList
        /\ fileList # <<>>
        /\ ~AllTerminal(fileList, files)
        /\ AllTerminal(fileList', files'))
          => Emits(emitted', "upload-complete", 0)]_vars

\* ------------------------------------------------------------------- C10
\* C10: a single file uploaded in one attempt whose create, chunk and
\* complete calls all succeed ends with status success, progress 100 and the
\* url of the complete call; the turn that ends it emits upload-success and
\* then upload-complete, only upload-progress is emitted before it and
\* nothing after it.
OneGoodAttempt(fs, at) ==
    /\ Len(fs) = 1
    /\ Len(at) = 1
    /\ at[1].result = "success"
    /\ \A k \in DOMAIN at[1].xhr : at[1].xhr[k] = "ok"

NothingFailedYet(fs, at) ==
    /\ Len(fs) <= 1
    /\ Len(at) <= 1
    /\ \A a \in DOMAIN at :
          /\ at[a].result = "running"
          /\ \A k \in DOMAIN at[a].xhr : at[a].xhr[k] \notin {"fail", "aborted"}

Thm_C10_HappyPath ==
    /\ [](OneGoodAttempt(files, attempts) =>
            /\ files[1].status = "success"
            /\ files[1].progress = 100
            /\ files[1].url = 1)
    /\ [][IF ~OneGoodAttempt(files, attempts) /\ OneGoodAttempt(files', attempts')
          THEN EventTypes(emitted') = <<"upload-success", "upload-complete">>
          ELSE IF OneGoodAttempt(files, attempts)
          THEN \A i \in 1..Len(emitted') : emitted'[i].type = "file-change"
          ELSE IF NothingFailedYet(files', attempts')
          THEN \A i \in 1..Len(emitted') :
                  emitted'[i].type \in {"file-change", "upload-progress"}
          ELSE TRUE]_vars

Wit_C10_TwoChunksDone ==
    /\ OneGoodAttempt(files, attempts)
    /\ Len(attempts[1].xhr) = 2
    /\ EventTypes(emitted) = <<"upload-success", "upload-complete">>
    /\ files[1].status = "success"

\* ------------------------------------------------------------------- C11
\* C11: when the complete call of an attempt fails, the turn leaves the file
\* in status error and emits upload-error for it and no upload-success; the
\* attempt is over and never reports success afterwards.
Thm_C11_MergeFailure ==
    [][\A a \in DOMAIN attempts :
          /\ (attempts[a].pc = "merge" /\ attempts'[a].result = "merge-failed") =>
                 /\ files'[attempts[a].file].status = "error"
                 /\ Emits(emitted', "upload-error", attempts[a].file)
                 /\ ~Emits(emitted', "upload-success", attempts[a].file)
                 /\ attempts'[a].pc = "done"
          /\ attempts[a].result = "merge-failed" =>
                 attempts'[a].result = "merge-failed" /\ attempts'[a].pc = "done"]_vars

Wit_C11_MergeFailed ==
    \E a \in DOMAIN attempts :
        /\ attempts[a].result = "merge-failed"
        /\ Len(attempts[a].xhr) = 2
        /\ \A k \in DOMAIN attempts[a].xhr : attempts[a].xhr[k] = "ok"
        /\ files[attempts[a].file].status = "error"
        /\ Emits(emitted, "upload-error", attempts[a].file)

\* ------------------------------------------------------------------- C12
\* C12: a selection or drop never leaves a file larger than maxSize MB in
\* the queue, and a selection or drop all of whose files are rejected for
\* their size starts no upload attempt (no create call, hence no chunk or
\* complete call), whatever the queue holds and whatever autoUpload is.
CE_C12_OversizedCausesNoCalls ==
    [][Emits(emitted', "file-change", 0) =>
          /\ \A i \in DOMAIN fileList' :
                files'[fileList'[i]].size <= props.maxSize * MB
          /\ (Len(files') = Len(files) => attempts' = attempts)]_vars

\* ------------------------------------------------------------------- C13
\* C13: an entry in status error is restarted only by a retry of that
\* entry; in particular the turn that handles a selection or drop of files
\* starts no attempt (issues no create call) for an entry that was in
\* error.
CE_C13_NoRestartOnItsOwn ==
    [][Emits(emitted', "file-change", 0) =>
          \A b \in DOMAIN attempts' :
              (/\ b \notin DOMAIN attempts
               /\ attempts'[b].file \in DOMAIN files
               /\ files[attempts'[b].file].status = "error")
                  => attempts'[b].retried]_vars

\* ------------------------------------------------------------------- C14
\* C14: the progress of a file never decreases except to 0, which it
\* becomes exactly in the turn that cancels or restarts the session; and
\* after a cancel it stays 0 as long as the session is not restarted.
Restarted(f) == files'[f].chunks # files[f].chunks

CancelledNow(f) ==
    /\ Latest(f) # 0
    /\ ~attempts[Latest(f)].cancelled
    /\ attempts'[Latest(f)].cancelled

CE_C14_ProgressMonotone ==
    [][\A f \in DOMAIN files :
          /\ (Restarted(f) \/ CancelledNow(f)) => files'[f].progress = 0
          /\ ~(Restarted(f) \/ CancelledNow(f)) =>
                 files'[f].progress >= files[f].progress
          /\ (Latest(f) # 0 /\ attempts[Latest(f)].cancelled /\ ~Restarted(f)) =>
                 files'[f].progress = 0]_vars

\* ------------------------------------------------------------------- C15
\* C15: every upload-progress event carries, and the file then stores, the
\* rounded (halves up) unweighted mean of the progress of the chunks of the
\* file's current chunk list; and every turn in which a chunk transfer
\* settles emits such an event.
IsRoundedMean(p, cs) ==
    LET n == Len(cs)
        total == SumProgress(cs, n)
    IN  /\ n > 0
        /\ 2 * n * p - n <= 2 * total
        /\ 2 * total < 2 * n * p + n

Thm_C15_UnweightedMean ==
    [][/\ \A i \in 1..Len(emitted') :
             emitted'[i].type = "upload-progress" =>
                 LET f == emitted'[i].file
                 IN  /\ files'[f].chunks # 0
                     /\ IsRoundedMean(emitted'[i].progress, arrays'[files'[f].chunks])
                     /\ files'[f].progress = emitted'[i].progress
       /\ \A a \in DOMAIN attempts :
             \A k \in DOMAIN attempts[a].xhr :
                 (attempts[a].xhr[k] = "sent" /\ attempts'[a].xhr[k] \in {"ok", "fail"})
                     => Emits(emitted', "upload-progress", attempts[a].file)]_vars

Wit_C15_RoundedUnevenChunks ==
    /\ Len(files) = 1
    /\ files[1].chunks # 0
    /\ LET cs == arrays[files[1].chunks]
       IN  /\ Len(cs) = 2
           /\ cs[1].end - cs[1].start # cs[2].end - cs[2].start
           /\ cs[1].progress = TickPercent
           /\ cs[2].progress = 0
    /\ files[1].progress = 13
    /\ Emits(emitted, "upload-progress", 1)

\* ------------------------------------------------------------------- C16
\* C16: a chunk whose transfer handle has been aborted has status error
\* (it does not stay in status uploading).
CE_C16_AbortedChunkIsError ==
    \A a \in DOMAIN attempts :
        \A k \in DOMAIN attempts[a].xhr :
            attempts[a].xhr[k] = "aborted" =>
                arrays[attempts[a].arr][k].status = "error"

\* ------------------------------------------------------------------- C17
\* C17: in every reachable state the registry entry of an identifier holds
\* only handles of transfers that are in flight (sent, neither settled nor
\* aborted), each once, and every transfer in flight of an attempt that has
\* not been cancelled is in the registry entry of its file's identifier.
InFlight(a) == {k \in DOMAIN attempts[a].xhr : attempts[a].xhr[k] = "sent"}

Registered(id) == {activeRequests[id][i] : i \in DOMAIN activeRequests[id]}

CE_C17_RegistryIsLiveHandles ==
    /\ \A id \in DOMAIN activeRequests :
          /\ Cardinality(Registered(id)) = Len(activeRequests[id])
          /\ \A h \in Registered(id) : h[2] \in InFlight(h[1])
    /\ \A a \in DOMAIN attempts :
          ~attempts[a].cancelled =>
              \A k \in InFlight(a) :
                  <<a, k>> \in Registered(files[attempts[a].file].identifier)

\* ------------------------------------------------------------------- C18
\* C18: in every reachable state the running count of an attempt equals the
\* number of its transfers that are in flight (sent and not ended by
\* success, failure or abort).
CE_C18_RunningCountIsInFlight ==
    \A a \in DOMAIN attempts :
        attempts[a].runningUploads = Cardinality(InFlight(a))

\* ------------------------------------------------------------------- C19
\* C19: an attempt sends its chunks in strictly ascending index order: a
\* chunk it sends has a larger index than every chunk it sent in an earlier
\* turn, and the chunks it sends in one turn are sent (registered) in
\* ascending order. Completions are not ordered.
NewlySent(a) == {k \in DOMAIN attempts'[a].xhr : SendsChunk(a, k)}

Thm_C19_AscendingDispatch ==
    [][\A a \in DOMAIN attempts :
          /\ \A k \in NewlySent(a) :
                \A j \in DOMAIN attempts[a].xhr :
                    attempts[a].xhr[j] # "none" => j < k
          /\ LET reg == activeRequests'[files'[attempts[a].file].identifier]
             IN  \A i, j \in DOMAIN reg :
                     (/\ i < j
                      /\ reg[i][1] = a /\ reg[i][2] \in NewlySent(a)
                      /\ reg[j][1] = a /\ reg[j][2] \in NewlySent(a))
                         => reg[i][2] < reg[j][2]]_vars

Wit_C19_SecondDoneFirst ==
    \E a \in DOMAIN attempts :
        /\ Len(attempts[a].xhr) = 2
        /\ attempts[a].xhr[1] = "sent"
        /\ attempts[a].xhr[2] = "ok"
        /\ activeRequests[files[attempts[a].file].identifier] = <<<<a, 1>>>>

\* ------------------------------------------------------------------- C20
\* C20: an attempt never sends a chunk index again once it has sent it
\* (whether that transfer is in flight, succeeded, failed or was aborted);
\* and an attempt that was not cancelled and whose chunk list no other
\* attempt worked on has, once its dispatch loop is over, sent every index
\* of the list.
OwnList(a) ==
    /\ attempts[a].arr = a
    /\ \A b \in DOMAIN attempts : b # a => attempts[b].arr # a

\* how often handle h stands in the registry entry of file f
Occurrences(reg, f, h) ==
    LET q == reg[files[f].identifier]
    IN  Cardinality({i \in DOMAIN q : q[i] = h})

Thm_C20_EachIndexOnce ==
    /\ [][\A a \in DOMAIN attempts :
            \A k \in DOMAIN attempts[a].xhr :
                /\ attempts[a].xhr[k] \in {"ok", "fail", "aborted"} =>
                       attempts'[a].xhr[k] = attempts[a].xhr[k]
                /\ attempts[a].xhr[k] = "sent" =>
                       /\ attempts'[a].xhr[k] # "none"
                       /\ Occurrences(activeRequests', attempts[a].file, <<a, k>>)
                              <= Occurrences(activeRequests, attempts[a].file, <<a, k>>)]_vars
    /\ [](\A a \in DOMAIN attempts :
            (/\ attempts[a].pc \in {"join", "merge", "done"}
             /\ attempts[a].result # "create-failed"
             /\ ~attempts[a].cancelled
             /\ OwnList(a)) =>
                /\ Len(attempts[a].xhr) = Len(arrays[a])
                /\ \A k \in DOMAIN attempts[a].xhr : attempts[a].xhr[k] # "none")

Wit_C20_FailedNotResent ==
    \E a \in DOMAIN attempts :
        /\ attempts[a].pc = "done"
        /\ ~attempts[a].cancelled
        /\ OwnList(a)
        /\ Len(attempts[a].xhr) = 2
        /\ attempts[a].xhr[1] = "fail"
        /\ attempts[a].xhr[2] = "ok"
        /\ attempts[a].maxConcurrent = 1

\* ------------------------------------------------------------------- C21
\* C21: once an entry is no longer in the queue (removed or cleared), no
\* attempt is started for it, its attempts send no chunk and issue no
\* complete call, and no event is emitted for it.
InQueue(f) == \E i \in DOMAIN fileList : fileList[i] = f

CE_C21_RemovedIsDiscarded ==
    [][\A f \in DOMAIN files :
          ~InQueue(f) =>
              /\ \A i \in 1..Len(emitted') : emitted'[i].file # f
              /\ \A a \in DOMAIN attempts :
                    attempts[a].file = f =>
                        NewlySent(a) = {} /\ ~IssuesComplete(a)
              /\ \A b \in DOMAIN attempts' :
                    b \notin DOMAIN attempts => attempts'[b].file # f]_vars

\* ------------------------------------------------------------------- C22
\* C22: when two entries of the queue have the same identifier (name, size
\* and last-modified), the turn that cancels one of them leaves no transfer
\* of either session in flight (transfers sent by an attempt that had been
\* cancelled before are left aside).
SharesIdentifier(f) ==
    \E g \in DOMAIN files :
        /\ g # f
        /\ InQueue(g)
        /\ files[g].identifier = files[f].identifier

CE_C22_SharedCancelScope ==
    [][\A f \in DOMAIN files :
          (CancelledNow(f) /\ SharesIdentifier(f)) =>
              \A b \in DOMAIN attempts :
                  (/\ ~attempts[b].cancelled
                   /\ files[attempts[b].file].identifier = files[f].identifier)
                      => \A k \in DOMAIN attempts'[b].xhr :
                             attempts'[b].xhr[k] # "sent"]_vars

\* ------------------------------------------------------------------- C23
\* C23: an attempt (one create call) issues the complete call at most
\* once, and upload-success is emitted at most once per attempt: each
\* upload-success event of a turn belongs to one attempt that succeeds in
\* that turn, and an attempt that has succeeded stays so and issues no
\* further complete call.
Succeeds(a) == attempts[a].result # "success" /\ attempts'[a].result = "success"

Thm_C23_OneCompletePerCreate ==
    [][/\ \A a \in DOMAIN attempts :
             /\ IssuesComplete(a) =>
                    attempts[a].completeUid = 0 /\ attempts[a].pc = "join"
             /\ Succeeds(a) => attempts[a].pc = "merge"
             /\ attempts[a].result = "success" =>
                    /\ attempts'[a].result = "success"
                    /\ attempts'[a].pc = "done"
                    /\ attempts'[a].completeUid = attempts[a].completeUid
       /\ \A f \in DOMAIN files :
             Cardinality({i \in 1..Len(emitted') :
                             emitted'[i].type = "upload-success" /\ emitted'[i].file = f})
                 = Cardinality({a \in DOMAIN attempts :
                                   attempts[a].file = f /\ Succeeds(a)})]_vars

Wit_C23_CancelledAndRetryBothMerge ==
    \E a, b \in DOMAIN attempts :
        /\ a < b
        /\ attempts[a].file = attempts[b].file
        /\ attempts[a].cancelled
        /\ attempts[b].retried
        /\ attempts[a].result = "success"
        /\ attempts[b].result = "success"
        /\ attempts[a].completeUid # 0
        /\ attempts[b].completeUid # 0

\* ------------------------------------------------------------------- C24
\* C24: an attempt for which cancelUpload has been accepted sends no chunk
\* afterwards.
CE_C24_NoChunkAfterCancel ==
    [][\A a \in DOMAIN attempts :
          attempts[a].cancelled => NewlySent(a) = {}]_vars

\* ------------------------------------------------------------------- C25
\* C25: an attempt that has ended through a create failure, a chunk failure
\* or a merge failure has emitted upload-error exactly once.
CE_C25_OneErrorPerFailure ==
    \A a \in DOMAIN attempts :
        (/\ attempts[a].pc = "done"
         /\ attempts[a].result \in {"create-failed", "chunk-failed", "merge-failed"})
            => attempts[a].errors = 1

\* ------------------------------------------------------------------- C26
\* C26: the status of a file changes only from waiting to uploading, from
\* uploading to success or error, and from error to uploading; so success
\* is final and error does not turn into success.
StatusSteps ==
    {<<"waiting", "uploading">>, <<"uploading", "success">>,
     <<"uploading", "error">>, <<"error", "uploading">>}

CE_C26_StatusGraph ==
    [][\A f \in DOMAIN files :
          files'[f].status # files[f].status =>
              /\ <<files[f].status, files'[f].status>> \in StatusSteps
              /\ (files[f].status = "error" => Restarted(f))]_vars

\* ------------------------------------------------------------------- C27
\* C27: every chunk call an attempt has sent and the complete call it has
\* issued carry the upload_id that the create call of this attempt
\* returned.
CE_C27_OwnUploadId ==
    \A a \in DOMAIN attempts :
        /\ \A k \in DOMAIN attempts[a].xhr :
              attempts[a].xhr[k] # "none" => attempts[a].xhrUid[k] = a
        /\ attempts[a].completeUid \in {0, a}

\* ------------------------------------------------------------------- C28
\* C28: with simultaneousUploads >= 1, every call settling and no cancel,
\* a file that is uploading eventually has status success or error.
Thm_C28_SessionTerminates ==
    \A f \in 1..SessionFiles :
        (f \in DOMAIN files /\ files[f].status = "uploading")
            ~> (f \in DOMAIN files /\ files[f].status \in {"success", "error"})

Wit_C28_DoneAfterSlotWait ==
    \E a \in DOMAIN attempts :
        /\ attempts[a].maxConcurrent = 1
        /\ Len(attempts[a].xhr) = 2
        /\ attempts[a].xhr[1] = "fail"
        /\ attempts[a].xhr[2] \in {"ok", "fail"}
        /\ attempts[a].pc = "done"
        /\ files[attempts[a].file].status = "error"

\* ------------------------------------------------------------------- C29
\* C29: a polling timer of an attempt whose file has reached success or
\* error stops by itself: as long as such an attempt is polling (slot wait
\* or join check), some step of the program other than a user gesture is
\* still to come (a call returning, a transfer settling, a timer callback
\* that finds its condition met).
SystemNext ==
    \/ CreateReturn
    \/ SlotTick
    \/ XhrLoadOk
    \/ XhrLoadFail
    \/ JoinTick
    \/ MergeReturn

Polling(a) == attempts[a].pc \in {"slot", "join"}

CE_C29_TimersStop ==
    \A a \in DOMAIN attempts :
        (Polling(a) /\ files[attempts[a].file].status \in {"success", "error"})
            => ENABLED SystemNext

\* ------------------------------------------------------------------- C30
\* C30: in a turn that emits upload-complete, every entry of the queue has
\* status success or error when the turn ends (none is waiting or
\* uploading).
Thm_C30_CompleteImpliesAllTerminal ==
    [][Emits(emitted', "upload-complete", 0) => AllTerminal(fileList', files')]_vars

Wit_C30_TwoEntriesDone ==
    /\ Len(fileList) = 2
    /\ files[fileList[1]].status = "error"
    /\ files[fileList[2]].status = "success"
    /\ Emits(emitted, "upload-complete", 0)

====
